---- MODULE Spec2Model ----
(***************************************************************************)
(* Monte Carlo retirement simulation: the worker                           *)
(* (src/lib/calculations/monte-carlo.worker.ts), the store slice that      *)
(* drives it (createMonteCarloSlice in                                     *)
(* src/store/slices/social-security-slice.ts) and the page that calls the  *)
(* store (MonteCarloPage, src/unnamed/part_006).                           *)
(*                                                                         *)
(* Numbers.  The worker computes in IEEE-754 doubles.  The model draws     *)
(* every amount from a grid of multiples of Unit = 100 * 2^MaxYears and    *)
(* every rate from multiples of 50 percent, so that each product and       *)
(* quotient the code forms is exact both in doubles and in the integers;   *)
(* Div is the exact quotient and is undefined when a quotient is not       *)
(* exact.  The one place where double rounding changes a result, the       *)
(* progress percentage, is modelled by FloorPercent.                       *)
(***************************************************************************)
EXTENDS Integers, Sequences, FiniteSets, TLC

VARIABLES
    mc,         \* the store's monteCarlo state (MonteCarloState)
    storage,    \* the monteCarlo part of the state last persisted, or Null
    workers,    \* the Web Workers created so far, by creation order
    outbox,     \* per worker: events queued for the main thread, in order
    emitted,    \* per live worker: kind/percentage of each message it posted
    clock,      \* the main thread's clock (new Date())
    pathCall,   \* last call of runSingleSimulation: arguments and result
    pctCall     \* last call of percentile: arguments and result

vars == <<mc, storage, workers, outbox, emitted, clock, pathCall, pctCall>>

----------------------------------------------------------------------------
(* Bounds *)

MaxYears == 2       \* longest horizon (yearsInRetirement) explored
MaxWorkers == 2     \* most workers created in one behaviour
MaxQueue == 1       \* most undelivered events per worker
MaxSampled == 3     \* most iterations of a run whose paths are sampled
MaxLen == 3         \* longest array handed to percentile on its own
MaxReporting == 1   \* most progress-reporting runs in flight at once
MaxRemaining == 2   \* iterations left of the run the fair behaviours start in

(* Program constants *)

PercentSteps == 100         \* Math.floor(iterations / 100): "every 1%"
DefaultYears == 30          \* parseInt(e.target.value) || 30

----------------------------------------------------------------------------
(* Arithmetic helpers *)

RECURSIVE Pow2(_)
Pow2(n) == IF n <= 0 THEN 1 ELSE 2 * Pow2(n - 1)

Unit == 100 * Pow2(MaxYears)

\* the exact quotient a / b; undefined (an evaluation error) if inexact
Div(a, b) == CHOOSE q \in {a \div b} : q * b = a

Max(a, b) == IF a >= b THEN a ELSE b
Min(a, b) == IF a <= b THEN a ELSE b

\* Math.floor(x / y) and Math.ceil(x / y) for y > 0
Floor(x, y) == x \div y
Ceil(x, y) == IF x % y = 0 THEN x \div y ELSE (x \div y) + 1

\* x * (1 + pct / 100), as in balance * (1 + returnRate) and
\* currentWithdrawal * (1 + inflationRate / 100)
Grow(x, pct) == Div(x * (100 + pct), 100)

\* decimal.js: new Decimal(n) and d.toNumber(); exact on the model's grid
NewDecimal(n) == [dec |-> n]
ToNumber(d) == d.dec

----------------------------------------------------------------------------
(* Random Return Sampler *)

\* the blended returns, in percent, that the random source yields here
Returns == {-200, -50, 0, 100}

\* generateRandomReturn: a weighted sum of three unbounded normal draws;
\* with every weight 0 the sum is 0, otherwise any real is possible
generateRandomReturn(equitiesPercent, bondsPercent, cashPercent) ==
    IF equitiesPercent = 0 /\ bondsPercent = 0 /\ cashPercent = 0
    THEN {0}
    ELSE Returns

----------------------------------------------------------------------------
(* Path Simulator *)

\* faulty variant of SimulateYear: a negative balance is carried over
SimulateYearNoClamp(st, returnRate, inflationRate) ==
    LET grown == Grow(st.balance, returnRate)
        after == grown - st.currentWithdrawal
    IN  [ yearByYear |-> Append(st.yearByYear, Max(0, after)),
          currentWithdrawal |-> Grow(st.currentWithdrawal, inflationRate),
          balance |-> after ]

\* faulty variant of SimulateYear: the withdrawal is inflated before it is
\* subtracted
SimulateYearInflatesFirst(st, returnRate, inflationRate) ==
    LET grown == Grow(st.balance, returnRate)
        inflated == Grow(st.currentWithdrawal, inflationRate)
        after == grown - inflated
    IN  [ yearByYear |-> Append(st.yearByYear, Max(0, after)),
          currentWithdrawal |-> inflated,
          balance |-> IF after < 0 THEN 0 ELSE after ]

\* one pass of the for loop of runSingleSimulation, lines 110-130
SimulateYear(st, returnRate, inflationRate) ==
    LET grown == Grow(st.balance, returnRate)
        after == grown - st.currentWithdrawal
    IN  [ yearByYear |-> Append(st.yearByYear, Max(0, after)),
          currentWithdrawal |-> Grow(st.currentWithdrawal, inflationRate),
          balance |-> IF after < 0 THEN 0 ELSE after ]

RECURSIVE SimulateYears(_, _, _, _)
SimulateYears(st, rets, year, params) ==
    IF year > params.yearsInRetirement
    THEN st
    ELSE SimulateYears(SimulateYear(st, rets[year], params.inflationRate),
                       rets, year + 1, params)

\* faulty variant of runSingleSimulation: year 0 is not recorded
runSingleSimulationNoYearZero(params, rets) ==
    LET st0 == [ yearByYear |-> <<>>,
                 currentWithdrawal |-> params.annualWithdrawal,
                 balance |-> params.startingBalance ]
        st == SimulateYears(st0, rets, 1, params)
        finalBalance == st.balance
    IN  [ yearByYear |-> st.yearByYear,
          success |-> finalBalance > 0,
          finalBalance |-> finalBalance ]

\* faulty variant of runSingleSimulation: a path that ends at exactly 0
\* counts as a success
runSingleSimulationSucceedsAtZero(params, rets) ==
    LET st0 == [ yearByYear |-> <<params.startingBalance>>,
                 currentWithdrawal |-> params.annualWithdrawal,
                 balance |-> params.startingBalance ]
        st == SimulateYears(st0, rets, 1, params)
        finalBalance == st.balance
    IN  [ yearByYear |-> st.yearByYear,
          success |-> finalBalance >= 0,
          finalBalance |-> finalBalance ]

\* runSingleSimulation(params), with rets the sampled return of each year
runSingleSimulation(params, rets) ==
    LET st0 == [ yearByYear |-> <<params.startingBalance>>,
                 currentWithdrawal |-> params.annualWithdrawal,
                 balance |-> params.startingBalance ]
        st == SimulateYears(st0, rets, 1, params)
        finalBalance == st.balance
    IN  [ yearByYear |-> st.yearByYear,
          success |-> finalBalance > 0,
          finalBalance |-> finalBalance ]

\* the return sequences runSingleSimulation can sample for params
ReturnSeqs(params) ==
    [ 1..params.yearsInRetirement ->
        generateRandomReturn(params.equitiesPercent, params.bondsPercent,
                             params.cashPercent) ]

----------------------------------------------------------------------------
(* Percentile Calculator *)

\* faulty variant of percentile: the nearest rank, without interpolation
percentileRounded(sortedArray, p) ==
    IF Len(sortedArray) = 0 THEN 0
    ELSE LET x == p * (Len(sortedArray) - 1)
             nearest == Floor(2 * x + 100, 200)
         IN  sortedArray[nearest + 1]

\* faulty variant of percentile: no early return for an empty array, whose
\* missing entry is read as the sentinel -1
percentileUnguarded(sortedArray, p) ==
    LET x == p * (Len(sortedArray) - 1)
        lower == Floor(x, 100)
        upper == Ceil(x, 100)
        weight == x % 100
        At(k) == IF k \in 0..(Len(sortedArray) - 1)
                 THEN sortedArray[k + 1] ELSE -1
    IN  IF lower = upper
        THEN At(lower)
        ELSE (At(lower) * (100 - weight) + At(upper) * weight) \div 100

\* percentile(sortedArray, p), p an integer percentage; arrays are 1-based
\* here, so sortedArray[k] of the code is sortedArray[k + 1]
percentile(sortedArray, p) ==
    IF Len(sortedArray) = 0 THEN 0
    ELSE LET x == p * (Len(sortedArray) - 1)     \* index * 100
             lower == Floor(x, 100)
             upper == Ceil(x, 100)
             weight == x % 100                   \* (index % 1) * 100
         IN  IF lower = upper
             THEN sortedArray[lower + 1]
             ELSE Div(sortedArray[lower + 1] * (100 - weight)
                        + sortedArray[upper + 1] * weight, 100)

\* faulty variant of SortAsc: the comparator is (a, b) => b - a
SortDesc(s) ==
    LET values == { s[j] : j \in 1..Len(s) }
        AtLeast(v) == Cardinality({ j \in 1..Len(s) : s[j] >= v })
    IN  [ k \in 1..Len(s) |->
            CHOOSE v \in values :
                /\ AtLeast(v) >= k
                /\ \A u \in values : u > v => AtLeast(u) < k ]

\* Array.prototype.sort((a, b) => a - b) on a sequence of numbers: the
\* k-th entry is the least value that at least k entries do not exceed
SortAsc(s) ==
    LET values == { s[j] : j \in 1..Len(s) }
        AtMost(v) == Cardinality({ j \in 1..Len(s) : s[j] <= v })
    IN  [ k \in 1..Len(s) |->
            CHOOSE v \in values :
                /\ AtMost(v) >= k
                /\ \A u \in values : u < v => AtMost(u) < k ]

\* allPaths.map(f)
Map(s, F(_)) == [ k \in 1..Len(s) |-> F(s[k]) ]

----------------------------------------------------------------------------
(* Values shared by the worker and the store *)

Null == [null |-> TRUE]

RECURSIVE GCD(_, _)
GCD(a, b) == IF b = 0 THEN a ELSE GCD(b, a % b)

\* the number n / d (d > 0), kept as a fraction in lowest terms
Ratio(n, d) == LET g == GCD(n, d) IN [num |-> n \div g, den |-> d \div g]

\* Math.floor((i / iterations) * 100) in doubles: the product (k / 100) * 100
\* evaluates to just below k for k = 29, 57 and 58, and to k or just above
\* for every other whole percentage; fractional percentages floor as exact
RoundedBelow == {29, 57, 58}

\* faulty variant of FloorPercent: the fraction is scaled by 1000
FloorPercentPerMille(i, iterations) == Floor(1000 * i, iterations)

\* faulty variant of FloorPercent: the percentage still to do
FloorPercentRemaining(i, iterations) == 100 - Floor(100 * i, iterations)

FloorPercent(i, iterations) ==
    LET e == Floor(100 * i, iterations)
    IN  IF (100 * i) % iterations = 0 /\ e \in RoundedBelow THEN e - 1 ELSE e

\* faulty variant of IsMultiple: the interval is not applied
IsMultipleOfOne(i, progressInterval) == i % 1 = 0

\* i % progressInterval === 0; the remainder by 0 is NaN, never === 0
IsMultiple(i, progressInterval) ==
    progressInterval # 0 /\ i % progressInterval = 0

----------------------------------------------------------------------------
(* Simulation Orchestrator: the worker's onmessage handler *)

Workers == 1..MaxWorkers

\* the sampler a worker's module calls: generateRandomReturn, or a test
\* double that returns the same value every time
RandomSampler == [fixed |-> FALSE, value |-> 0]
FixedSampler(r) == [fixed |-> TRUE, value |-> r]

\* a worker: its status, the params of its request, the loop counter i, the
\* paths pushed so far and its sampler
NoWorker ==
    [ status |-> "none", params |-> Null, i |-> 0, allPaths |-> <<>>,
      sampler |-> RandomSampler ]
Terminated ==
    [ status |-> "terminated", params |-> Null, i |-> 0, allPaths |-> <<>>,
      sampler |-> RandomSampler ]

\* the return sequences worker record wk can sample for one path
SampledReturns(wk) ==
    IF wk.sampler.fixed
    THEN [ 1..wk.params.yearsInRetirement -> {wk.sampler.value} ]
    ELSE ReturnSeqs(wk.params)

Progress(n) == [type |-> "PROGRESS", progress |-> n]
Complete(r) == [type |-> "COMPLETE", results |-> r]
ErrorEvent == [type |-> "error"]

\* what emitted keeps of a posted message
Kind(msg) == IF msg.type = "PROGRESS" THEN msg ELSE [type |-> msg.type]

\* self.postMessage(msg)
PostMessage(w, msg) ==
    /\ outbox' = [outbox EXCEPT ![w] = Append(@, msg)]
    /\ emitted' = [emitted EXCEPT ![w] = Append(@, Kind(msg))]

CanPost(w) == Len(outbox[w]) < MaxQueue

YearBalance(path, year) == path.yearByYear[year + 1]

\* allPaths.map(path => path.yearByYear[year]).sort((a, b) => a - b)
BalancesAtYear(allPaths, year) ==
    LET AtYear(path) == YearBalance(path, year)
    IN  SortAsc(Map(allPaths, AtYear))

\* faulty variant of calculatePercentilePaths: the balances are not sorted
calculatePercentilePathsUnsorted(allPaths, yearsInRetirement) ==
    LET AtYear(y) == [ k \in 1..Len(allPaths) |-> YearBalance(allPaths[k], y) ]
        Row(p) == [ y \in 1..(yearsInRetirement + 1) |->
                      percentile(AtYear(y - 1), p) ]
    IN  [ p5 |-> Row(5), p25 |-> Row(25), p50 |-> Row(50),
          p75 |-> Row(75), p95 |-> Row(95) ]

\* calculatePercentilePaths(allPaths, yearsInRetirement); entry y + 1 of a
\* row is the code's entry for year y
calculatePercentilePaths(allPaths, yearsInRetirement) ==
    LET balancesAtYear == [ y \in 1..(yearsInRetirement + 1) |->
                              BalancesAtYear(allPaths, y - 1) ]
        Row(p) == [ y \in 1..(yearsInRetirement + 1) |->
                      percentile(balancesAtYear[y], p) ]
    IN  [ p5 |-> Row(5), p25 |-> Row(25), p50 |-> Row(50),
          p75 |-> Row(75), p95 |-> Row(95) ]

IsSuccess(path) == path.success
FinalBalanceOf(path) == path.finalBalance

\* faulty variant of SuccessRate: a path that ends at 0 counts as a success
SuccessRateOfSurvivors(allPaths, iterations) ==
    LET Survives(path) == path.finalBalance >= 0
    IN  Ratio(Len(SelectSeq(allPaths, Survives)) * 100, iterations)

\* faulty variant of SuccessRate: the paths are not filtered by success
SuccessRateOverAll(allPaths, iterations) ==
    Ratio(Len(allPaths) * 100, iterations)

\* successRate of lines 223-224
SuccessRate(allPaths, iterations) ==
    Ratio(Len(SelectSeq(allPaths, IsSuccess)) * 100, iterations)

\* "Calculate results", lines 222-240
ComputeResults(allPaths, params) ==
    LET allFinalBalances == SortAsc(Map(allPaths, FinalBalanceOf))
    IN  [ successRate |-> SuccessRate(allPaths, params.iterations),
          medianFinalBalance |-> percentile(allFinalBalances, 50),
          percentileOutcomes |->
              calculatePercentilePaths(allPaths, params.yearsInRetirement),
          allFinalBalances |-> allFinalBalances,
          worstCase |-> allFinalBalances[1],
          bestCase |-> allFinalBalances[Len(allFinalBalances)] ]

\* the START_SIMULATION message is dispatched to self.onmessage
WorkerStart(w) ==
    /\ workers[w].status = "created"
    /\ workers' = [workers EXCEPT ![w].status = "running"]
    /\ UNCHANGED <<mc, storage, outbox, emitted, clock, pathCall, pctCall>>

\* faulty variant of WorkerIterate: the progress interval is at least 1
WorkerIterateIntervalAtLeastOne(w) ==
    LET wk == workers[w]
        iterations == wk.params.iterations
        progressInterval == Max(1, Floor(iterations, PercentSteps))
        reports == wk.i > 0 /\ IsMultiple(wk.i, progressInterval)
    IN  /\ wk.status = "running"
        /\ wk.i < iterations
        /\ reports => CanPost(w)
        /\ \E rets \in SampledReturns(wk) :
             workers' = [workers EXCEPT
                 ![w].allPaths = Append(@, runSingleSimulation(wk.params, rets)),
                 ![w].i = @ + 1]
        /\ IF reports
           THEN PostMessage(w, Progress(FloorPercent(wk.i, iterations)))
           ELSE UNCHANGED <<outbox, emitted>>
        /\ UNCHANGED <<mc, storage, clock, pathCall, pctCall>>

\* one pass of the loop of lines 208-220
WorkerIterate(w) ==
    LET wk == workers[w]
        iterations == wk.params.iterations
        progressInterval == Floor(iterations, PercentSteps)
        reports == wk.i > 0 /\ IsMultiple(wk.i, progressInterval)
    IN  /\ wk.status = "running"
        /\ wk.i < iterations
        /\ reports => CanPost(w)
        /\ \E rets \in SampledReturns(wk) :
             workers' = [workers EXCEPT
                 ![w].allPaths = Append(@, runSingleSimulation(wk.params, rets)),
                 ![w].i = @ + 1]
        /\ IF reports
           THEN PostMessage(w, Progress(FloorPercent(wk.i, iterations)))
           ELSE UNCHANGED <<outbox, emitted>>
        /\ UNCHANGED <<mc, storage, clock, pathCall, pctCall>>

\* faulty variant of WorkerComplete: COMPLETE is posted from inside the loop
WorkerCompleteInLoop(w) ==
    LET wk == workers[w]
    IN  /\ wk.status = "running"
        /\ wk.i >= wk.params.iterations
        /\ CanPost(w)
        /\ UNCHANGED workers
        /\ PostMessage(w, Complete(ComputeResults(wk.allPaths, wk.params)))
        /\ UNCHANGED <<mc, storage, clock, pathCall, pctCall>>

\* lines 222-246: aggregate and post COMPLETE; the handler returns
WorkerComplete(w) ==
    LET wk == workers[w]
    IN  /\ wk.status = "running"
        /\ wk.i >= wk.params.iterations
        /\ CanPost(w)
        /\ workers' = [workers EXCEPT ![w].status = "done"]
        /\ PostMessage(w, Complete(ComputeResults(wk.allPaths, wk.params)))
        /\ UNCHANGED <<mc, storage, clock, pathCall, pctCall>>

\* an uncaught exception in the worker (the engine runs out of memory, the
\* script fails to load): the handler is abandoned and an error event is
\* queued for worker.onerror
WorkerThrow(w) ==
    /\ workers[w].status \in {"created", "running"}
    /\ CanPost(w)
    /\ workers' = [workers EXCEPT ![w].status = "failed"]
    /\ outbox' = [outbox EXCEPT ![w] = Append(@, ErrorEvent)]
    /\ UNCHANGED <<mc, storage, emitted, clock, pathCall, pctCall>>

----------------------------------------------------------------------------
(* The store: createMonteCarloSlice *)

DefaultIterations == 1000000
DefaultInflation == 3

\* initialState of the slice
initialState ==
    [ inputs |-> [ iterations |-> DefaultIterations,
                   equitiesPercent |-> NewDecimal(60),
                   bondsPercent |-> NewDecimal(30),
                   cashPercent |-> NewDecimal(10),
                   startingBalance |-> NewDecimal(0),
                   annualWithdrawal |-> NewDecimal(0),
                   yearsInRetirement |-> DefaultYears,
                   inflationRate |-> NewDecimal(DefaultInflation) ],
      results |-> Null,
      isRunning |-> FALSE,
      progress |-> 0,
      lastCalculated |-> Null ]

\* the inputs a caller enters: [iterations, yearsInRetirement,
\* startingBalance, annualWithdrawal, inflationRate] with the default
\* allocation
Inputs(iterations, years, balance, withdrawal, inflation) ==
    [ iterations |-> iterations,
      equitiesPercent |-> NewDecimal(60),
      bondsPercent |-> NewDecimal(30),
      cashPercent |-> NewDecimal(10),
      startingBalance |-> NewDecimal(balance),
      annualWithdrawal |-> NewDecimal(withdrawal),
      yearsInRetirement |-> years,
      inflationRate |-> NewDecimal(inflation) ]

\* a one-path run whose allocation adds up to 110 percent
OverAllocated == [ Inputs(1, 0, Unit, Unit, 0) EXCEPT !.cashPercent = NewDecimal(20) ]

\* the input records explored with the store: the smallest run that
\* reports progress, a one-path run, a one-path run the page refuses, and
\* a one-path run with an allocation that is not valid
InputChoices ==
    { Inputs(PercentSteps, 0, Unit, Unit, 0),
      Inputs(1, 0, Unit, Unit, 0),
      Inputs(1, 0, 0, Unit, 0),
      OverAllocated }

Reports(params) == params.iterations >= PercentSteps

\* the progress-reporting runs in flight
Reporting ==
    { w \in Workers : /\ workers[w].status \in {"created", "running"}
                      /\ Reports(workers[w].params) }

\* the params of the START_SIMULATION message, lines 242-254
ParamsOf(inputs) ==
    [ iterations |-> inputs.iterations,
      equitiesPercent |-> ToNumber(inputs.equitiesPercent),
      bondsPercent |-> ToNumber(inputs.bondsPercent),
      cashPercent |-> ToNumber(inputs.cashPercent),
      startingBalance |-> ToNumber(inputs.startingBalance),
      annualWithdrawal |-> ToNumber(inputs.annualWithdrawal),
      yearsInRetirement |-> inputs.yearsInRetirement,
      inflationRate |-> ToNumber(inputs.inflationRate) ]

\* "Convert plain numbers back to Decimals for storage", lines 209-222
DecimalSeq(s) == [ k \in 1..Len(s) |-> NewDecimal(s[k]) ]

DecimalResults(results) ==
    [ successRate |-> NewDecimal(results.successRate),
      medianFinalBalance |-> NewDecimal(results.medianFinalBalance),
      percentileOutcomes |->
          [ p5 |-> DecimalSeq(results.percentileOutcomes.p5),
            p25 |-> DecimalSeq(results.percentileOutcomes.p25),
            p50 |-> DecimalSeq(results.percentileOutcomes.p50),
            p75 |-> DecimalSeq(results.percentileOutcomes.p75),
            p95 |-> DecimalSeq(results.percentileOutcomes.p95) ],
      allFinalBalances |-> DecimalSeq(results.allFinalBalances),
      worstCase |-> NewDecimal(results.worstCase),
      bestCase |-> NewDecimal(results.bestCase) ]

\* the number of workers created so far; worker ids are creation order
Created == Cardinality({ w \in Workers : workers[w].status # "none" })

\* worker.terminate(): the worker stops and its queued events are dropped
Terminate(w) ==
    /\ workers' = [workers EXCEPT ![w] = Terminated]
    /\ outbox' = [outbox EXCEPT ![w] = <<>>]
    /\ emitted' = [emitted EXCEPT ![w] = <<>>]

\* faulty variant of partialize: the monteCarlo state is persisted whole
partializeWhole(monteCarlo) == monteCarlo

\* the monteCarlo part of partialize(state), calculator-store.ts
partialize(monteCarlo) ==
    [ monteCarlo EXCEPT
        !.isRunning = FALSE,
        !.progress = 0,
        !.results = IF monteCarlo.results # Null
                    THEN [ monteCarlo.results EXCEPT !.allFinalBalances = <<>> ]
                    ELSE Null ]

\* set(...) of the store under the persist middleware: the new state is
\* installed and its partialized form is handed to the storage
SetMonteCarlo(monteCarlo) ==
    /\ mc' = monteCarlo
    /\ storage' = partialize(monteCarlo)

\* updateMonteCarloInputs(inputs) with a full record of inputs; an update
\* to the present inputs changes nothing and is left to stuttering
updateMonteCarloInputs(inputs) ==
    /\ SetMonteCarlo([mc EXCEPT !.inputs = inputs])
    /\ UNCHANGED <<workers, outbox, emitted, clock, pathCall, pctCall>>

UpdateInputs == \E inputs \in InputChoices :
    /\ mc.inputs # inputs
    /\ updateMonteCarloInputs(inputs)

\* faulty variant of startMonteCarloSimulation: the results of the previous
\* run are kept
startMonteCarloSimulationKeepsResults ==
    /\ Created < MaxWorkers
    /\ mc.inputs \in InputChoices
    /\ Reports(ParamsOf(mc.inputs)) => Cardinality(Reporting) < MaxReporting
    /\ SetMonteCarlo([mc EXCEPT !.isRunning = TRUE, !.progress = 0])
    /\ workers' = [workers EXCEPT ![Created + 1] =
                     [ status |-> "created", params |-> ParamsOf(mc.inputs),
                       i |-> 0, allPaths |-> <<>>,
                       sampler |-> RandomSampler ]]
    /\ UNCHANGED <<outbox, emitted, clock, pathCall, pctCall>>

\* startMonteCarloSimulation(), lines 185-255
startMonteCarloSimulation ==
    /\ Created < MaxWorkers
    /\ mc.inputs \in InputChoices
    /\ Reports(ParamsOf(mc.inputs)) => Cardinality(Reporting) < MaxReporting
    /\ SetMonteCarlo([mc EXCEPT !.isRunning = TRUE, !.progress = 0,
                                 !.results = Null])
    /\ workers' = [workers EXCEPT ![Created + 1] =
                     [ status |-> "created", params |-> ParamsOf(mc.inputs),
                       i |-> 0, allPaths |-> <<>>,
                       sampler |-> RandomSampler ]]
    /\ UNCHANGED <<outbox, emitted, clock, pathCall, pctCall>>

\* faulty variant of updateMonteCarloProgress: the value is stored as given
updateMonteCarloProgressUnclamped(progress) ==
    SetMonteCarlo([mc EXCEPT !.progress = progress])

\* updateMonteCarloProgress(progress), lines 257-264
updateMonteCarloProgress(progress) ==
    SetMonteCarlo([mc EXCEPT !.progress = Min(100, Max(0, progress))])

\* faulty variant of completeMonteCarloSimulation: isRunning is not cleared
completeMonteCarloSimulationStaysRunning(results) ==
    /\ SetMonteCarlo([mc EXCEPT !.results = results, !.progress = 100,
                                 !.lastCalculated = clock + 1])
    /\ clock' = clock + 1

\* faulty variant of completeMonteCarloSimulation: the flag is set instead
\* of cleared
completeMonteCarloSimulationSetsRunning(results) ==
    /\ SetMonteCarlo([mc EXCEPT !.results = results, !.isRunning = TRUE,
                                 !.progress = 100,
                                 !.lastCalculated = clock + 1])
    /\ clock' = clock + 1

\* completeMonteCarloSimulation(results), lines 266-276
completeMonteCarloSimulation(results) ==
    /\ SetMonteCarlo([mc EXCEPT !.results = results, !.isRunning = FALSE,
                                 !.progress = 100,
                                 !.lastCalculated = clock + 1])
    /\ clock' = clock + 1

\* worker.onmessage, branch type === 'PROGRESS'
OnProgress(w) ==
    /\ outbox[w] # <<>>
    /\ Head(outbox[w]).type = "PROGRESS"
    /\ updateMonteCarloProgress(Head(outbox[w]).progress)
    /\ outbox' = [outbox EXCEPT ![w] = Tail(@)]
    /\ UNCHANGED <<workers, emitted, clock, pathCall, pctCall>>

\* worker.onmessage, branch type === 'COMPLETE'
OnComplete(w) ==
    /\ outbox[w] # <<>>
    /\ Head(outbox[w]).type = "COMPLETE"
    /\ completeMonteCarloSimulation(DecimalResults(Head(outbox[w]).results))
    /\ Terminate(w)
    /\ UNCHANGED <<pathCall, pctCall>>

\* faulty variant of OnError: the progress shown is left as it was
OnErrorKeepsProgress(w) ==
    /\ outbox[w] # <<>>
    /\ Head(outbox[w]).type = "error"
    /\ SetMonteCarlo([mc EXCEPT !.isRunning = FALSE])
    /\ Terminate(w)
    /\ UNCHANGED <<clock, pathCall, pctCall>>

\* worker.onerror, lines 229-239
OnError(w) ==
    /\ outbox[w] # <<>>
    /\ Head(outbox[w]).type = "error"
    /\ SetMonteCarlo([mc EXCEPT !.isRunning = FALSE, !.progress = 0])
    /\ Terminate(w)
    /\ UNCHANGED <<clock, pathCall, pctCall>>

\* resetMonteCarlo(), also the Monte Carlo step of resetAllCalculators; a
\* reset of the initial state changes nothing and is left to stuttering
resetMonteCarlo ==
    /\ mc # initialState
    /\ SetMonteCarlo(initialState)
    /\ UNCHANGED <<workers, outbox, emitted, clock, pathCall, pctCall>>

----------------------------------------------------------------------------
(* The store driven by any sequence of its actions *)

Init ==
    /\ mc = initialState
    /\ storage = Null
    /\ workers = [ w \in Workers |-> NoWorker ]
    /\ outbox = [ w \in Workers |-> <<>> ]
    /\ emitted = [ w \in Workers |-> <<>> ]
    /\ clock = 0
    /\ pathCall = Null
    /\ pctCall = Null

Next ==
    \/ UpdateInputs
    \/ startMonteCarloSimulation
    \/ resetMonteCarlo
    \/ \E w \in Workers : WorkerStart(w)
    \/ \E w \in Workers : WorkerIterate(w)
    \/ \E w \in Workers : WorkerComplete(w)
    \/ \E w \in Workers : WorkerThrow(w)
    \/ \E w \in Workers : OnProgress(w)
    \/ \E w \in Workers : OnComplete(w)
    \/ \E w \in Workers : OnError(w)

Spec == Init /\ [][Next]_vars

----------------------------------------------------------------------------
(* The store driven through MonteCarloPage: the Start button is disabled   *)
(* while a run is flagged running or required data is missing, the Reset   *)
(* button while a run is flagged running.  The page offers 10,000 and      *)
(* 1,000,000 iterations, which are multiples of PercentSteps like the      *)
(* reporting run of InputChoices.                                          *)

hasRequiredData ==
    /\ ToNumber(mc.inputs.startingBalance) > 0
    /\ ToNumber(mc.inputs.annualWithdrawal) > 0

\* handleStartSimulation behind disabled={isRunning || !hasRequiredData}
PageStart ==
    /\ ~mc.isRunning
    /\ hasRequiredData
    /\ startMonteCarloSimulation

\* handleReset behind disabled={isRunning}
PageReset ==
    /\ ~mc.isRunning
    /\ resetMonteCarlo

NextPage ==
    \/ UpdateInputs
    \/ PageStart
    \/ PageReset
    \/ \E w \in Workers : WorkerStart(w)
    \/ \E w \in Workers : WorkerIterate(w)
    \/ \E w \in Workers : WorkerComplete(w)
    \/ \E w \in Workers : WorkerThrow(w)
    \/ \E w \in Workers : OnProgress(w)
    \/ \E w \in Workers : OnComplete(w)
    \/ \E w \in Workers : OnError(w)

SpecPage == Init /\ [][NextPage]_vars

\* a step of a worker's loop or the dispatch of a queued event to its handler
Stepping ==
    \E w \in Workers :
        \/ WorkerStart(w)
        \/ WorkerIterate(w)
        \/ OnProgress(w)
        \/ OnComplete(w)
        \/ OnError(w)

\* a worker aggregates and posts COMPLETE
Completing == \E w \in Workers : WorkerComplete(w)

\* the guard of Completing: ENABLED <<Completing>>_vars
CanComplete ==
    \E w \in Workers :
        /\ workers[w].status = "running"
        /\ workers[w].i >= workers[w].params.iterations
        /\ CanPost(w)

\* The scheduling the platform gives: while a worker can take its next step
\* or an event is queued, one of them is eventually taken, and a worker
\* that has left its loop eventually posts its results.  The second
\* conjunct is WF_vars(Completing) with the guard written out.  An
\* exception in the worker is possible at any time but never bound to
\* happen.
Fairness ==
    /\ WF_vars(Stepping)
    /\ ([]<>(~CanComplete)) \/ ([]<><<Completing>>_vars)

\* The fair behaviours are explored from the last iterations of a
\* progress-reporting run started through the page (a state SpecPage
\* reaches); the runs started after it are runs of one path.
LateInputs == Inputs(PercentSteps, 0, Unit, Unit, 0)

\* the reporting run when MaxRemaining of its iterations are still to do
\* and every PROGRESS message posted so far has been delivered
LateInRun ==
    LET params == ParamsOf(LateInputs)
        done == PercentSteps - MaxRemaining
    IN  /\ mc = [initialState EXCEPT
                   !.inputs = LateInputs, !.isRunning = TRUE,
                   !.progress = FloorPercent(done - 1, PercentSteps)]
        /\ workers = [ w \in Workers |->
                         IF w = 1
                         THEN [ status |-> "running", params |-> params,
                                i |-> done,
                                allPaths |-> [ k \in 1..done |->
                                    runSingleSimulation(params, <<>>) ],
                                sampler |-> RandomSampler ]
                         ELSE NoWorker ]
        /\ outbox = [ w \in Workers |-> <<>> ]
        /\ emitted = [ w \in Workers |->
                         IF w = 1
                         THEN [ k \in 1..(done - 1) |->
                                  Progress(FloorPercent(k, PercentSteps)) ]
                         ELSE <<>> ]
        /\ clock = 0

InitFair ==
    /\ LateInRun
    /\ storage = partialize(mc)
    /\ pathCall = Null
    /\ pctCall = Null

\* handleStartSimulation for a run that reports no progress
QuickStart ==
    /\ ~Reports(ParamsOf(mc.inputs))
    /\ PageStart

NextFair ==
    \/ UpdateInputs
    \/ QuickStart
    \/ PageReset
    \/ \E w \in Workers : WorkerStart(w)
    \/ \E w \in Workers : WorkerIterate(w)
    \/ \E w \in Workers : WorkerComplete(w)
    \/ \E w \in Workers : WorkerThrow(w)
    \/ \E w \in Workers : OnProgress(w)
    \/ \E w \in Workers : OnComplete(w)
    \/ \E w \in Workers : OnError(w)

SpecFair == InitFair /\ [][NextFair]_vars /\ Fairness

----------------------------------------------------------------------------
(* The page together with resetAllCalculators, which calls resetMonteCarlo  *)
(* whatever the state of the run: it is an action of the store behind no    *)
(* button of MonteCarloPage.                                                *)

NextReset ==
    \/ UpdateInputs
    \/ PageStart
    \/ resetMonteCarlo
    \/ \E w \in Workers : WorkerStart(w)
    \/ \E w \in Workers : WorkerIterate(w)
    \/ \E w \in Workers : WorkerComplete(w)
    \/ \E w \in Workers : WorkerThrow(w)
    \/ \E w \in Workers : OnProgress(w)
    \/ \E w \in Workers : OnComplete(w)
    \/ \E w \in Workers : OnError(w)

SpecReset == Init /\ [][NextReset]_vars

----------------------------------------------------------------------------
(* One run, from the START_SIMULATION request to the delivery of COMPLETE *)

\* iteration counts that report progress: every iteration (interval 1, with
\* whole and fractional percentages) and every second iteration
ReportingRuns == {PercentSteps, 150, 2 * PercentSteps - 1, 2 * PercentSteps}

RunInputs ==
    { Inputs(n, y, b, Unit, 0) :
        n \in 1..MaxSampled, y \in 0..MaxYears, b \in {Unit, 2 * Unit} }
      \cup { Inputs(n, 0, Unit, Unit, 0) : n \in ReportingRuns }

InitRun ==
    /\ \E inputs \in RunInputs :
         /\ mc = [initialState EXCEPT !.inputs = inputs, !.isRunning = TRUE]
         /\ workers = [ w \in Workers |->
                          IF w = 1
                          THEN [ status |-> "created", params |-> ParamsOf(inputs),
                                 i |-> 0, allPaths |-> <<>>,
                                 sampler |-> RandomSampler ]
                          ELSE NoWorker ]
    /\ storage = partialize(mc)
    /\ outbox = [ w \in Workers |-> <<>> ]
    /\ emitted = [ w \in Workers |-> <<>> ]
    /\ clock = 0
    /\ pathCall = Null
    /\ pctCall = Null

NextRun ==
    \/ \E w \in Workers : WorkerStart(w)
    \/ \E w \in Workers : WorkerIterate(w)
    \/ \E w \in Workers : WorkerComplete(w)
    \/ \E w \in Workers : OnProgress(w)
    \/ \E w \in Workers : OnComplete(w)

SpecRun == InitRun /\ [][NextRun]_vars

----------------------------------------------------------------------------
(* One run of a worker whose sampler is replaced by a test double that      *)
(* always returns the same negative return                                  *)

FakeReturns == { r \in Returns : r < 0 }

FakeInputs ==
    { Inputs(n, y, b, Unit, 0) :
        n \in 1..MaxSampled, y \in 0..MaxYears,
        b \in {Unit, 2 * Unit, 4 * Unit} }
      \cup { Inputs(PercentSteps, 1, 4 * Unit, Unit, 0) }

InitFake ==
    /\ \E inputs \in FakeInputs, r \in FakeReturns :
         /\ mc = [initialState EXCEPT !.inputs = inputs, !.isRunning = TRUE]
         /\ workers = [ w \in Workers |->
                          IF w = 1
                          THEN [ status |-> "created", params |-> ParamsOf(inputs),
                                 i |-> 0, allPaths |-> <<>>,
                                 sampler |-> FixedSampler(r) ]
                          ELSE NoWorker ]
    /\ storage = partialize(mc)
    /\ outbox = [ w \in Workers |-> <<>> ]
    /\ emitted = [ w \in Workers |-> <<>> ]
    /\ clock = 0
    /\ pathCall = Null
    /\ pctCall = Null

NextFake ==
    \/ \E w \in Workers : WorkerStart(w)
    \/ \E w \in Workers : WorkerIterate(w)
    \/ \E w \in Workers : WorkerComplete(w)
    \/ \E w \in Workers : OnProgress(w)
    \/ \E w \in Workers : OnComplete(w)

SpecFake == InitFake /\ [][NextFake]_vars

----------------------------------------------------------------------------
(* The page-driven store with updateMonteCarloProgress also called         *)
(* directly: it is an action of the store's interface and takes any number *)

\* the numbers handed to updateMonteCarloProgress directly
ProgressValues == {-1, 50, 101}

CallUpdateProgress == \E progress \in ProgressValues :
    /\ updateMonteCarloProgress(progress)
    /\ UNCHANGED <<workers, outbox, emitted, clock, pathCall, pctCall>>

NextProgress ==
    \/ UpdateInputs
    \/ PageStart
    \/ PageReset
    \/ CallUpdateProgress
    \/ \E w \in Workers : WorkerStart(w)
    \/ \E w \in Workers : WorkerIterate(w)
    \/ \E w \in Workers : WorkerComplete(w)
    \/ \E w \in Workers : WorkerThrow(w)
    \/ \E w \in Workers : OnProgress(w)
    \/ \E w \in Workers : OnComplete(w)
    \/ \E w \in Workers : OnError(w)

SpecProgress == Init /\ [][NextProgress]_vars

----------------------------------------------------------------------------
(* The store's actions called in any order, a start during a run included, *)
(* for runs too short to report progress: updateMonteCarloProgress is      *)
(* called directly, with any number                                        *)

\* startMonteCarloSimulation() of a run too short to report progress
ShortStart ==
    /\ ~Reports(ParamsOf(mc.inputs))
    /\ startMonteCarloSimulation

NextStore ==
    \/ UpdateInputs
    \/ ShortStart
    \/ CallUpdateProgress
    \/ resetMonteCarlo
    \/ \E w \in Workers : WorkerStart(w)
    \/ \E w \in Workers : WorkerIterate(w)
    \/ \E w \in Workers : WorkerComplete(w)
    \/ \E w \in Workers : WorkerThrow(w)
    \/ \E w \in Workers : OnComplete(w)
    \/ \E w \in Workers : OnError(w)

SpecStore == Init /\ [][NextStore]_vars

----------------------------------------------------------------------------
(* runSingleSimulation on its own *)

Inflations == {-200, -100, -50, 0, 100}

PathParams ==
    { [ iterations |-> 1,
        equitiesPercent |-> 60, bondsPercent |-> 30, cashPercent |-> 10,
        startingBalance |-> b, annualWithdrawal |-> wd,
        yearsInRetirement |-> y, inflationRate |-> f ] :
        b \in {0, Unit, 2 * Unit}, wd \in {0, Unit},
        y \in 0..MaxYears, f \in Inflations }

InitPath ==
    /\ pathCall \in UNION { { [params |-> pr, rets |-> r, returned |-> FALSE, path |-> Null] :
                               r \in ReturnSeqs(pr) } : pr \in PathParams }
    /\ mc = initialState
    /\ storage = Null
    /\ workers = [ w \in Workers |-> NoWorker ]
    /\ outbox = [ w \in Workers |-> <<>> ]
    /\ emitted = [ w \in Workers |-> <<>> ]
    /\ clock = 0
    /\ pctCall = Null

CallRunSingleSimulation ==
    /\ pathCall # Null
    /\ ~pathCall.returned
    /\ pathCall' = [pathCall EXCEPT
                      !.returned = TRUE,
                      !.path = runSingleSimulation(pathCall.params, pathCall.rets)]
    /\ UNCHANGED <<mc, storage, workers, outbox, emitted, clock, pctCall>>

NextPath == CallRunSingleSimulation

SpecPath == InitPath /\ [][NextPath]_vars

----------------------------------------------------------------------------
(* percentile on its own *)

PctValues == {0, 100, 200, 400}

IsSorted(s) == \A j \in 1..(Len(s) - 1) : s[j] <= s[j + 1]

SortedArrays ==
    UNION { { s \in [1..n -> PctValues] : IsSorted(s) } : n \in 0..MaxLen }

\* the array of the documented example and the percentages it is exact for
ExampleArray == <<10, 20, 30, 40, 50>>
ExamplePercents == { 5 * k : k \in 0..20 }

InitPct ==
    /\ pctCall \in
         { [sortedArray |-> s, p |-> p, returned |-> FALSE, value |-> 0] :
             s \in SortedArrays, p \in 0..100 }
           \cup { [sortedArray |-> ExampleArray, p |-> p,
                    returned |-> FALSE, value |-> 0] : p \in ExamplePercents }
    /\ mc = initialState
    /\ storage = Null
    /\ workers = [ w \in Workers |-> NoWorker ]
    /\ outbox = [ w \in Workers |-> <<>> ]
    /\ emitted = [ w \in Workers |-> <<>> ]
    /\ clock = 0
    /\ pathCall = Null

CallPercentile ==
    /\ pctCall # Null
    /\ ~pctCall.returned
    /\ pctCall' = [pctCall EXCEPT
                     !.returned = TRUE,
                     !.value = percentile(pctCall.sortedArray, pctCall.p)]
    /\ UNCHANGED <<mc, storage, workers, outbox, emitted, clock, pathCall>>

NextPct == CallPercentile

SpecPct == InitPct /\ [][NextPct]_vars

----------------------------------------------------------------------------
(* Properties *)

IsProgress(m) == m.type = "PROGRESS"
IsComplete(m) == m.type = "COMPLETE"

\* the percentages of the PROGRESS messages a worker posted, in order
Percentages(w) ==
    LET ps == SelectSeq(emitted[w], IsProgress)
    IN  [ k \in 1..Len(ps) |-> ps[k].progress ]

\* a step in which the main thread takes the first queued event of worker w
Delivers(w) == outbox[w] # <<>> /\ Len(outbox'[w]) < Len(outbox[w])

\* C1: a run posts PROGRESS messages only, then exactly one COMPLETE as the
\* handler's last act: COMPLETE is never followed by another message, a
\* handler still in its loop has posted no COMPLETE, and a handler that
\* has returned has posted one.
C1_ProgressThenOneComplete ==
    \A w \in Workers :
        LET e == emitted[w]
        IN  /\ \A k \in 1..Len(e) : IsProgress(e[k]) \/ IsComplete(e[k])
            /\ \A k \in 1..Len(e) : IsComplete(e[k]) => k = Len(e)
            /\ workers[w].status \in {"created", "running"}
                 => \A k \in 1..Len(e) : IsProgress(e[k])
            /\ workers[w].status = "done"
                 => Len(e) >= 1 /\ IsComplete(e[Len(e)])

C1_Witness ==
    \E w \in Workers :
        /\ workers[w].status = "done"
        /\ Len(emitted[w]) > PercentSteps
        /\ IsProgress(emitted[w][1])
        /\ IsComplete(emitted[w][Len(emitted[w])])

\* C2 as stated: the percentages of successive PROGRESS messages of a run
\* are strictly increasing.
C2_StrictlyIncreasing ==
    \A w \in Workers :
        \A k \in 1..(Len(Percentages(w)) - 1) :
            Percentages(w)[k] < Percentages(w)[k + 1]

\* C2 amended: the percentages of successive PROGRESS messages of a run
\* never decrease (successive messages may repeat a percentage).
C2_NonDecreasing ==
    \A w \in Workers :
        \A k \in 1..(Len(Percentages(w)) - 1) :
            Percentages(w)[k] <= Percentages(w)[k + 1]

C2_Witness ==
    \E w \in Workers :
        \E k \in 1..(Len(Percentages(w)) - 1) :
            /\ Percentages(w)[k] = Percentages(w)[k + 1]
            /\ k + 2 <= Len(Percentages(w))
            /\ Percentages(w)[k + 1] < Percentages(w)[k + 2]

\* C3: once a newer run has been started, no PROGRESS or COMPLETE message
\* of an earlier worker changes progress, results or isRunning of the store.
C3_StaleRunIgnored ==
    [][ \A w \in Workers :
          ( /\ w < Created
            /\ Delivers(w)
            /\ Head(outbox[w]).type \in {"PROGRESS", "COMPLETE"} )
          => /\ mc'.progress = mc.progress
             /\ mc'.results = mc.results
             /\ mc'.isRunning = mc.isRunning ]_vars

\* a worker executing a run whose messages can still reach the store
Executing(w) == workers[w].status \in {"created", "running"}

\* C4: at every moment at most one worker is executing a run whose
\* messages can still reach the store.
C4_AtMostOneActiveRun ==
    Cardinality({ w \in Workers : Executing(w) }) <= 1

Posted(w) == outbox[w][Len(outbox[w])].results
HasPosted(w) == workers[w].status = "done" /\ outbox[w] # <<>>

\* C6: in the results of a completed run worstCase is the 5th and bestCase
\* the 95th percentile of the sorted final balances.
C6_WorstBestArePercentiles ==
    \A w \in Workers :
        HasPosted(w) =>
            /\ Posted(w).worstCase = percentile(Posted(w).allFinalBalances, 5)
            /\ Posted(w).bestCase = percentile(Posted(w).allFinalBalances, 95)

\* C7: every recorded yearly balance of a path is >= 0, and once a
\* recorded balance is 0 every later recorded balance is 0.
C7_MonotonicFloor ==
    (pathCall # Null /\ pathCall.returned) =>
        LET yby == pathCall.path.yearByYear
        IN  /\ \A k \in 1..Len(yby) : yby[k] >= 0
            /\ \A j, k \in 1..Len(yby) : (j < k /\ yby[j] = 0) => yby[k] = 0

\* C8: for every returned path, success = (finalBalance > 0) and
\* finalBalance is the last recorded balance of the trajectory.
C8_SuccessAndFinalBalance ==
    (pathCall # Null /\ pathCall.returned) =>
        LET path == pathCall.path
        IN  /\ path.success = (path.finalBalance > 0)
            /\ path.finalBalance = path.yearByYear[Len(path.yearByYear)]

\* a path that ran its full horizon and was depleted in the last year
C8_Witness ==
    /\ pathCall # Null
    /\ pathCall.returned
    /\ pathCall.params.yearsInRetirement = MaxYears
    /\ pathCall.path.yearByYear[MaxYears] > 0
    /\ pathCall.path.finalBalance = 0
    /\ ~pathCall.path.success

\* C9: for a non-empty sorted array and p in 0..100, with idx = (p/100)(n-1),
\* lower = floor(idx), upper = ceil(idx), weight = idx - lower, percentile
\* returns value[lower](1 - weight) + value[upper] weight; the result lies
\* between the first and the last entry; on <<10,20,30,40,50>> it is 10, 20,
\* 30 and 50 at p = 0, 25, 50 and 100.
C9_PercentileInterpolates ==
    (pctCall # Null /\ pctCall.returned /\ Len(pctCall.sortedArray) > 0) =>
        LET a == pctCall.sortedArray
            n == Len(a)
            idx100 == pctCall.p * (n - 1)
            lower == CHOOSE l \in 0..(n - 1) :
                         100 * l <= idx100 /\ idx100 < 100 * (l + 1)
            upper == CHOOSE u \in 0..(n - 1) :
                         100 * (u - 1) < idx100 /\ idx100 <= 100 * u
            weight100 == idx100 - 100 * lower
        IN  /\ 100 * pctCall.value
                 = a[lower + 1] * (100 - weight100) + a[upper + 1] * weight100
            /\ a[1] <= pctCall.value /\ pctCall.value <= a[n]
            /\ (a = ExampleArray /\ pctCall.p = 0) => pctCall.value = 10
            /\ (a = ExampleArray /\ pctCall.p = 25) => pctCall.value = 20
            /\ (a = ExampleArray /\ pctCall.p = 50) => pctCall.value = 30
            /\ (a = ExampleArray /\ pctCall.p = 100) => pctCall.value = 50

\* a call that interpolates strictly between two different entries
C9_Witness ==
    /\ pctCall # Null
    /\ pctCall.returned
    /\ Len(pctCall.sortedArray) >= 2
    /\ (pctCall.p * (Len(pctCall.sortedArray) - 1)) % 100 # 0
    /\ \E k \in 1..(Len(pctCall.sortedArray) - 1) :
         /\ pctCall.sortedArray[k] < pctCall.value
         /\ pctCall.value < pctCall.sortedArray[k + 1]

\* the number of successful paths among all paths worker w simulated
Successes(w) ==
    Cardinality({ k \in 1..Len(workers[w].allPaths) :
                    workers[w].allPaths[k].success })

\* C10: on completion successRate = 100 * (paths with success) / iterations,
\* counted over all `iterations` simulated paths, and lies in [0, 100].
C10_SuccessRate ==
    \A w \in Workers :
        HasPosted(w) =>
            LET rate == Posted(w).successRate
                iterations == workers[w].params.iterations
            IN  /\ Len(workers[w].allPaths) = iterations
                /\ rate.den > 0
                /\ rate.num * iterations = 100 * Successes(w) * rate.den
                /\ 0 <= rate.num /\ rate.num <= 100 * rate.den

\* a completed run in which some paths succeeded and some failed
C10_Witness ==
    \E w \in Workers :
        /\ HasPosted(w)
        /\ 0 < Successes(w)
        /\ Successes(w) < workers[w].params.iterations

\* v is the p-th percentile of the ascending sequence s: the entries around
\* position (p / 100)(Len(s) - 1), weighted by the distance to each
IsPercentileOf(v, s, p) ==
    LET n == Len(s)
        idx100 == p * (n - 1)
        lower == CHOOSE l \in 0..(n - 1) :
                     100 * l <= idx100 /\ idx100 < 100 * (l + 1)
        upper == IF idx100 = 100 * lower THEN lower ELSE lower + 1
        weight100 == idx100 - 100 * lower
    IN  100 * v = s[lower + 1] * (100 - weight100) + s[upper + 1] * weight100

\* the year-y balances of all paths worker w simulated, ascending
YearBalances(w, y) ==
    SortAsc([ k \in 1..Len(workers[w].allPaths) |->
                workers[w].allPaths[k].yearByYear[y + 1] ])

\* C11: the completed results hold five arrays p5, p25, p50, p75, p95 of
\* length yearsInRetirement + 1 whose entry for year y is the 5th, 25th,
\* 50th, 75th, 95th percentile of the sorted year-y balances of all
\* `iterations` paths.
C11_PercentileBands ==
    \A w \in Workers :
        HasPosted(w) =>
            LET po == Posted(w).percentileOutcomes
                years == workers[w].params.yearsInRetirement
                Band(row, p) ==
                    /\ Len(row) = years + 1
                    /\ \A y \in 0..years :
                         IsPercentileOf(row[y + 1], YearBalances(w, y), p)
            IN  /\ Len(workers[w].allPaths) = workers[w].params.iterations
                /\ DOMAIN po = {"p5", "p25", "p50", "p75", "p95"}
                /\ Band(po.p5, 5) /\ Band(po.p25, 25) /\ Band(po.p50, 50)
                /\ Band(po.p75, 75) /\ Band(po.p95, 95)

\* a completed run over the longest horizon whose bands differ in the last
\* year, the paths not having been simulated in ascending order
C11_Witness ==
    \E w \in Workers :
        /\ HasPosted(w)
        /\ workers[w].params.yearsInRetirement = MaxYears
        /\ Len(workers[w].allPaths) = MaxSampled
        /\ workers[w].allPaths[1].finalBalance > workers[w].allPaths[2].finalBalance
        /\ Posted(w).percentileOutcomes.p5[MaxYears + 1]
             < Posted(w).percentileOutcomes.p95[MaxYears + 1]

C13_PercentagesInRange ==
    \A w \in Workers :
        LET ps == Percentages(w)
        IN  /\ \A k \in 1..Len(ps) : ps[k] \in 0..100
            /\ \A j, k \in 1..Len(ps) : j < k => ps[j] <= ps[k]
            /\ Len(ps) > 0 => ps[Len(ps)] <= 100

\* a finished run whose percentages start at 0 and end at 99
C13_Witness ==
    \E w \in Workers :
        /\ workers[w].status = "done"
        /\ Len(Percentages(w)) > 1
        /\ Percentages(w)[1] = 0
        /\ Percentages(w)[Len(Percentages(w))] = PercentSteps - 1

\* C14: the persisted Monte Carlo state has isRunning = false, progress = 0
\* and, for results that are not null, allFinalBalances = [] with
\* successRate, medianFinalBalance, worstCase, bestCase and
\* percentileOutcomes as in the current results; null results stay null.
C14_PersistedSummaryOnly ==
    storage # Null =>
        /\ storage.isRunning = FALSE
        /\ storage.progress = 0
        /\ storage.inputs = mc.inputs
        /\ (mc.results = Null) = (storage.results = Null)
        /\ mc.results # Null =>
             /\ storage.results.allFinalBalances = <<>>
             /\ storage.results.successRate = mc.results.successRate
             /\ storage.results.medianFinalBalance = mc.results.medianFinalBalance
             /\ storage.results.worstCase = mc.results.worstCase
             /\ storage.results.bestCase = mc.results.bestCase
             /\ storage.results.percentileOutcomes = mc.results.percentileOutcomes

\* a completed progress-reporting run: the store holds every final balance
\* and shows 100 percent, the persisted state holds neither
C14_Witness ==
    /\ storage # Null
    /\ mc.results # Null
    /\ Len(mc.results.allFinalBalances) = PercentSteps
    /\ mc.progress = 100
    /\ storage.results # Null
    /\ storage.progress = 0

\* what MonteCarloPage reads of the state to choose what it renders
Shown(monteCarlo) ==
    <<monteCarlo.isRunning, monteCarlo.progress, monteCarlo.results>>

\* C15: the state in which the handling of a worker's error event leaves
\* the store differs, on isRunning, progress and results, from the idle
\* state with no results.
C15_FailureDistinguished ==
    [][ \A w \in Workers :
          ( Delivers(w) /\ Head(outbox[w]).type = "error" )
          => Shown(mc') # Shown(initialState) ]_vars

\* the run of worker w has been abandoned: the store is idle although the
\* worker has not been terminated, or a newer run has been started
Abandoned(w) == ~mc.isRunning \/ w < Created

\* C16: once a running simulation has been abandoned by resetMonteCarlo
\* (directly or through resetAllCalculators) no PROGRESS or COMPLETE
\* message of its worker changes progress, results or isRunning.
C16_ResetRunStaysIdle ==
    [][ \A w \in Workers :
          ( /\ Abandoned(w)
            /\ Delivers(w)
            /\ Head(outbox[w]).type \in {"PROGRESS", "COMPLETE"} )
          => Shown(mc') = Shown(mc) ]_vars

Returned == pathCall # Null /\ pathCall.returned

\* C17: a returned path has a trajectory of yearsInRetirement + 1 entries
\* that starts with startingBalance; for yearsInRetirement = 0 it is
\* <<startingBalance>> and success = (startingBalance > 0).
C17_TrajectoryLength ==
    Returned =>
        LET params == pathCall.params
            path == pathCall.path
        IN  /\ Len(path.yearByYear) = params.yearsInRetirement + 1
            /\ path.yearByYear[1] = params.startingBalance
            /\ params.yearsInRetirement = 0 =>
                 /\ path.yearByYear = <<params.startingBalance>>
                 /\ path.success = (params.startingBalance > 0)

\* a successful path over no years
C17_Witness ==
    /\ Returned
    /\ pathCall.params.yearsInRetirement = 0
    /\ pathCall.params.startingBalance > 0
    /\ pathCall.path.yearByYear = <<pathCall.params.startingBalance>>
    /\ pathCall.path.success

\* C18: for startingBalance = 0 and yearsInRetirement >= 1 a returned path
\* has success = false whenever the first withdrawal is positive, and
\* success = true when the first withdrawal is 0 as well.
C18_ZeroBalanceFails ==
    ( /\ Returned
      /\ pathCall.params.startingBalance = 0
      /\ pathCall.params.yearsInRetirement >= 1 )
    => /\ pathCall.params.annualWithdrawal > 0 => ~pathCall.path.success
       /\ pathCall.params.annualWithdrawal = 0 => pathCall.path.success

\* the sampler of worker w always returns the same negative return, and the
\* path simulator calls it (there is at least one year to simulate)
FixedNegativeSampler(w) ==
    /\ workers[w].sampler.fixed
    /\ workers[w].sampler.value < 0
    /\ workers[w].params.yearsInRetirement >= 1

\* C19 as stated: with a sampler that always returns the same negative
\* return every simulated path fails, successRate = 0 and
\* worstCase = bestCase = 0.
C19_FixedNegativeReturnDepletes ==
    \A w \in Workers :
        (HasPosted(w) /\ FixedNegativeSampler(w)) =>
            /\ \A k \in 1..Len(workers[w].allPaths) :
                 ~workers[w].allPaths[k].success
            /\ Posted(w).successRate = Ratio(0, 1)
            /\ Posted(w).worstCase = 0
            /\ Posted(w).bestCase = 0

\* C19 amended: with a sampler that always returns the same negative return
\* all simulated paths are identical, worstCase = bestCase = their final
\* balance and successRate is 0 or 100; every path fails, successRate = 0
\* and worstCase = bestCase = 0 exactly when that final balance is 0.
C19_FixedReturnIdenticalPaths ==
    \A w \in Workers :
        (HasPosted(w) /\ FixedNegativeSampler(w)) =>
            LET paths == workers[w].allPaths
                depleted == paths[1].finalBalance = 0
            IN  /\ \A k \in 1..Len(paths) : paths[k] = paths[1]
                /\ Posted(w).worstCase = paths[1].finalBalance
                /\ Posted(w).bestCase = paths[1].finalBalance
                /\ Posted(w).successRate \in {Ratio(0, 1), Ratio(100, 1)}
                /\ depleted = (Posted(w).successRate = Ratio(0, 1))
                /\ depleted = (\A k \in 1..Len(paths) : ~paths[k].success)

\* a completed run over the longest horizon in which the sampler returned
\* the same negative return every time and every path was depleted
C19_Witness ==
    \E w \in Workers :
        /\ HasPosted(w)
        /\ FixedNegativeSampler(w)
        /\ workers[w].params.yearsInRetirement = MaxYears
        /\ Len(workers[w].allPaths) = MaxSampled
        /\ Posted(w).successRate = Ratio(0, 1)
        /\ Posted(w).worstCase = 0
        /\ Posted(w).bestCase = 0

\* validateAssetAllocation and iterations > 0 on the store's inputs
ValidInputs(inputs) ==
    /\ ToNumber(inputs.equitiesPercent) + ToNumber(inputs.bondsPercent)
         + ToNumber(inputs.cashPercent) = 100
    /\ inputs.iterations > 0

\* C20: while the inputs are invalid (the allocation does not add up to
\* 100 or iterations <= 0) no step creates a worker for a START_SIMULATION
\* request and no step enters Running.
C20_InvalidParametersRejected ==
    [][ ~ValidInputs(mc.inputs)
          => /\ Created' = Created
             /\ mc'.isRunning => mc.isRunning ]_vars

\* a worker that has been created and not terminated
Live(w) == workers[w].status \in {"created", "running", "done", "failed"}

\* C21: no worker outlives the run it was created for: a worker that has
\* not been terminated belongs to the run the store is flagged as running,
\* which is the newest one (completion, failure, reset and a new start all
\* terminate the worker of the run they end).
C21_NoWorkerOutlivesRun ==
    \A w \in Workers : Live(w) => (mc.isRunning /\ w = Created)

\* C22: under fair scheduling of the workers and of message delivery a run
\* that has been started eventually leaves the Running state: isRunning =
\* true is always eventually followed by isRunning = false.
C22_RunningEventuallyEnds == mc.isRunning ~> ~mc.isRunning

\* the reporting run and a run started after it have both completed
C22_Witness ==
    /\ ~mc.isRunning
    /\ clock = 2
    /\ \A w \in 1..2 : workers[w].status = "terminated"

RECURSIVE Pow(_, _)
Pow(x, n) == IF n <= 0 THEN 1 ELSE x * Pow(x, n - 1)

\* firstYearWithdrawal * (1 + inflationRate/100)^(k-1)
WithdrawalInYear(params, k) ==
    Div(params.annualWithdrawal * Pow(100 + params.inflationRate, k - 1),
        Pow(100, k - 1))

\* C23: in each year k = 1..yearsInRetirement the sampled return is applied
\* to the balance, then the current withdrawal is subtracted and
\* max(balance, 0) recorded, and only then is the withdrawal inflated: the
\* balance recorded for year k is max(0, previous * (1 + return_k) -
\* firstYearWithdrawal * (1 + inflationRate/100)^(k-1)), year 1 subtracting
\* the un-inflated firstYearWithdrawal.
C23_WithdrawThenInflate ==
    Returned =>
        LET params == pathCall.params
            yby == pathCall.path.yearByYear
        IN  \A k \in 1..params.yearsInRetirement :
                yby[k + 1] = Max(0, Grow(yby[k], pathCall.rets[k])
                                      - WithdrawalInYear(params, k))

\* a path over the full horizon with a positive withdrawal and a non-zero
\* inflation rate that still holds money in its last year
C23_Witness ==
    /\ Returned
    /\ pathCall.params.yearsInRetirement = MaxYears
    /\ pathCall.params.annualWithdrawal > 0
    /\ pathCall.params.inflationRate = 100
    /\ pathCall.path.yearByYear[MaxYears] > 0
    /\ pathCall.path.yearByYear[MaxYears + 1] > 0
    /\ pathCall.path.yearByYear[MaxYears + 1]
         < Grow(pathCall.path.yearByYear[MaxYears], pathCall.rets[MaxYears])

\* C24: percentile called on an empty array returns 0 for every p, without
\* raising an error or indexing the array.
C24_EmptyArrayYieldsZero ==
    (pctCall # Null /\ pctCall.returned /\ Len(pctCall.sortedArray) = 0) =>
        pctCall.value = 0

\* percentile has returned from a call on the empty array with a p for
\* which a non-empty array would be interpolated
C24_Witness ==
    /\ pctCall # Null
    /\ pctCall.returned
    /\ pctCall.sortedArray = <<>>
    /\ pctCall.p = 95

\* C25: the store's monteCarlo.progress is within [0, 100] in every
\* reachable state: updateMonteCarloProgress clamps any reported value into
\* 0..100, start and the error handler set it to 0, completion sets it to
\* 100.
C25_ProgressInRange == mc.progress \in 0..100

\* a run is flagged running and shows 100 percent: a value above 100 was
\* reported and clamped
C25_Witness ==
    /\ mc.isRunning
    /\ mc.progress = 100
    /\ \E w \in Workers : workers[w].status = "running"

\* a step of startMonteCarloSimulation: a worker is created
StartStep == Created' = Created + 1

\* a step of completeMonteCarloSimulation: the time of calculation is taken
CompleteStep == clock' = clock + 1

\* the COMPLETE message a step of completeMonteCarloSimulation handles
Completed(w) ==
    /\ outbox[w] # <<>>
    /\ Head(outbox[w]).type = "COMPLETE"
    /\ workers'[w].status = "terminated"

\* C26: startMonteCarloSimulation sets isRunning = true, progress = 0 and
\* results = null and leaves inputs and lastCalculated unchanged; the
\* parameters sent to the worker are the inputs as they were when start was
\* called, and no later step changes them; completeMonteCarloSimulation
\* sets results, isRunning = false and progress = 100 and leaves inputs
\* unchanged.
C26_StartAndCompleteFrame ==
    [][ /\ StartStep =>
              /\ mc' = [mc EXCEPT !.isRunning = TRUE, !.progress = 0,
                                  !.results = Null]
              /\ workers'[Created + 1].params = ParamsOf(mc.inputs)
        /\ \A w \in Workers :
              Live(w) /\ workers'[w].status # "terminated" =>
                  workers'[w].params = workers[w].params
        /\ CompleteStep =>
              \E w \in Workers :
                  /\ Completed(w)
                  /\ mc'.results = DecimalResults(Head(outbox[w]).results)
                  /\ ~mc'.isRunning
                  /\ mc'.progress = 100
                  /\ mc'.inputs = mc.inputs
      ]_vars

\* a first run was completed and a second one started, which cleared the
\* results and kept the time of calculation; the inputs were changed while
\* the second run was under way
C26_Witness ==
    /\ mc.isRunning
    /\ mc.results = Null
    /\ mc.progress = 0
    /\ clock = 1
    /\ workers[1].status = "terminated"
    /\ workers[2].status = "running"
    /\ workers[2].params # ParamsOf(mc.inputs)

\* C27: in every state reachable through the store's actions
\* (updateMonteCarloInputs, startMonteCarloSimulation,
\* updateMonteCarloProgress, completeMonteCarloSimulation, the worker's
\* error handler, resetMonteCarlo), isRunning = true implies results = null.
C27_RunningHasNoResults == mc.isRunning => mc.results = Null

\* after one run was completed, a run is flagged running with no results
\* shown, its own results waiting to be delivered
C27_Witness ==
    /\ mc.isRunning
    /\ mc.results = Null
    /\ clock >= 1
    /\ \E w \in Workers :
         /\ workers[w].status = "done"
         /\ outbox[w] # <<>>
         /\ Head(outbox[w]).type = "COMPLETE"

\* C28: in every completed result, for each year index y,
\* p5[y] <= p25[y] <= p50[y] <= p75[y] <= p95[y]; at y = 0 all five equal
\* startingBalance; allFinalBalances is sorted ascending with exactly
\* `iterations` entries, and worstCase <= medianFinalBalance <= bestCase.
C28_OrderedOutputs ==
    \A w \in Workers :
        HasPosted(w) =>
            LET results == Posted(w)
                po == results.percentileOutcomes
                params == workers[w].params
            IN  /\ \A y \in 0..params.yearsInRetirement :
                     /\ po.p5[y + 1] <= po.p25[y + 1]
                     /\ po.p25[y + 1] <= po.p50[y + 1]
                     /\ po.p50[y + 1] <= po.p75[y + 1]
                     /\ po.p75[y + 1] <= po.p95[y + 1]
                /\ \A row \in {po.p5, po.p25, po.p50, po.p75, po.p95} :
                     row[1] = params.startingBalance
                /\ IsSorted(results.allFinalBalances)
                /\ Len(results.allFinalBalances) = params.iterations
                /\ results.worstCase <= results.medianFinalBalance
                /\ results.medianFinalBalance <= results.bestCase

\* a completed run of several paths over the longest horizon whose
\* outputs are strictly ordered in the last year
C28_Witness ==
    \E w \in Workers :
        /\ HasPosted(w)
        /\ workers[w].params.yearsInRetirement = MaxYears
        /\ workers[w].params.iterations = MaxSampled
        /\ Posted(w).percentileOutcomes.p5[MaxYears + 1]
             < Posted(w).percentileOutcomes.p50[MaxYears + 1]
        /\ Posted(w).percentileOutcomes.p50[MaxYears + 1]
             < Posted(w).percentileOutcomes.p95[MaxYears + 1]
        /\ Posted(w).worstCase < Posted(w).medianFinalBalance
        /\ Posted(w).medianFinalBalance < Posted(w).bestCase

\* C29: for firstYearWithdrawal >= 0 and inflationRate >= -100, a path
\* returned by runSingleSimulation has success = true if and only if every
\* recorded yearly balance of its trajectory is strictly positive.
C29_SuccessIffAlwaysPositive ==
    ( /\ Returned
      /\ pathCall.params.annualWithdrawal >= 0
      /\ pathCall.params.inflationRate >= -100 )
    => LET yby == pathCall.path.yearByYear
       IN  pathCall.path.success <=> \A k \in 1..Len(yby) : yby[k] > 0

\* a path whose first year ends at exactly 0, not below, and which is
\* returned as a failure after the remaining years
C29_Witness ==
    /\ Returned
    /\ pathCall.params.annualWithdrawal > 0
    /\ pathCall.params.inflationRate >= -100
    /\ pathCall.params.yearsInRetirement = MaxYears
    /\ pathCall.params.startingBalance > 0
    /\ Grow(pathCall.params.startingBalance, pathCall.rets[1])
         = pathCall.params.annualWithdrawal
    /\ pathCall.path.yearByYear[2] = 0
    /\ ~pathCall.path.success

\* C30: for 0 < iterations < 100 the worker posts no PROGRESS message at
\* all and still ends the run with exactly one COMPLETE message; for
\* iterations >= 100 no PROGRESS is posted for i = 0 and every percentage
\* reported before COMPLETE is below 100.
C30_ShortRunsReportNothing ==
    \A w \in Workers :
        Executing(w) \/ workers[w].status = "done" =>
            LET iterations == workers[w].params.iterations
                e == emitted[w]
            IN  /\ iterations < PercentSteps =>
                     /\ Percentages(w) = <<>>
                     /\ workers[w].status = "done" => e = <<[type |-> "COMPLETE"]>>
                /\ iterations >= PercentSteps =>
                     /\ workers[w].i <= 1 => e = <<>>
                     /\ \A k \in 1..Len(Percentages(w)) :
                          Percentages(w)[k] < 100
                     /\ workers[w].status = "done" =>
                          /\ Len(e) = Len(Percentages(w)) + 1
                          /\ IsComplete(e[Len(e)])

\* a run of several iterations, fewer than 100, has ended having posted
\* COMPLETE and nothing else
C30_Witness ==
    \E w \in Workers :
        /\ workers[w].status = "done"
        /\ workers[w].params.iterations = MaxSampled
        /\ Len(workers[w].allPaths) = MaxSampled
        /\ emitted[w] = <<[type |-> "COMPLETE"]>>

====
